---- MODULE Spec2Model ----
(***************************************************************************)
(* Model of the subtitle translation pipeline of whisper-translator-cn     *)
(* (package src/whisper_translator): the retry wrapper make_request, the   *)
(* orchestrator translate_text / translate_single / translate_batch /      *)
(* translate_subtitles, and the pipeline process_subtitles with the two    *)
(* writers.                                                                *)
(*                                                                         *)
(* A text is a sequence of one-character strings.  The full-width          *)
(* punctuation of the source is written with ASCII token names:            *)
(*   "fw_stop" U+3002, "fw_comma" U+FF0C, "fw_excl" U+FF01,                *)
(*   "fw_quest" U+FF1F, "ideo_comma" U+3001.                               *)
(* A multi-line string (the batch block sent, the batch reply) is a        *)
(* sequence of lines, i.e. the result of split('\n') / the argument of     *)
(* "\n".join.                                                              *)
(***************************************************************************)
EXTENDS Integers, Sequences, FiniteSets, TLC

\* ------------------------------------------------------------------ bounds
MaxEntries == 2
MaxRetries == 3
MaxDelay == 2
MaxBatch == 2
MaxReplyLines == 2
MaxBlocks == 4
MaxLines == 3

\* ------------------------------------------------------- character classes
Digits == {"0", "1", "2", "3", "4", "5", "6", "7", "8", "9"}
Whitespace == {" ", "\t", "\n"}
\* the class [.。,，、\s] of NUMBER_PREFIX_PATTERN
PrefixSeparators == {".", "fw_stop", ",", "fw_comma", "ideo_comma"} \cup Whitespace
\* the argument of text.strip('。，！？,.!?') in clean_text
StripPunctuation == {"fw_stop", "fw_comma", "fw_excl", "fw_quest", ",", ".", "!", "?"}
\* the class [.。、\s] of the reply-line pattern in translate_batch
ReplySeparators == {".", "fw_stop", "ideo_comma"} \cup Whitespace

SetMin(S) == CHOOSE m \in S : \A n \in S : m <= n
SetMax(S) == CHOOSE m \in S : \A n \in S : m >= n

\* str.strip(chars): drop the leading and trailing characters that are in chars
StripChars(s, chars) ==
    LET keep == {k \in 1..Len(s) : s[k] \notin chars}
    IN  IF keep = {} THEN <<>> ELSE SubSeq(s, SetMin(keep), SetMax(keep))

\* str.strip()
Strip(s) == StripChars(s, Whitespace)

\* number of leading characters of s that are in chars
LeadCount(s, chars) ==
    LET other == {k \in 1..Len(s) : s[k] \notin chars}
    IN  IF other = {} THEN Len(s) ELSE SetMin(other) - 1

\* NUMBER_PREFIX_PATTERN.sub('', text): ^\d+[.。,，、\s]* removed at the start
RemoveNumberPrefix(s) ==
    LET d == LeadCount(s, Digits)
        rest == SubSeq(s, d + 1, Len(s))
    IN  IF d = 0 THEN s
        ELSE SubSeq(rest, LeadCount(rest, PrefixSeparators) + 1, Len(rest))

clean_text(text) ==
    IF text = <<>> THEN <<>>
    ELSE StripChars(RemoveNumberPrefix(Strip(text)), StripPunctuation)

\* decimal digits of a natural number, as f"{i}" writes them
RECURSIVE DecimalDigits(_)
DecimalDigits(n) ==
    IF n < 10 THEN <<CHOOSE d \in Digits : d = ToString(n)>>
    ELSE DecimalDigits(n \div 10) \o DecimalDigits(n % 10)

RECURSIVE Pow2(_)
Pow2(n) == IF n = 0 THEN 1 ELSE 2 * Pow2(n - 1)

\* "\n".join(lines)
RECURSIVE JoinLines(_)
JoinLines(lines) ==
    IF lines = <<>> THEN <<>>
    ELSE IF Len(lines) = 1 THEN lines[1]
    ELSE lines[1] \o <<"\n">> \o JoinLines(Tail(lines))

\* s.split('\n'): always at least one element
RECURSIVE SplitLines(_)
SplitLines(s) ==
    LET nl == {k \in 1..Len(s) : s[k] = "\n"}
    IN  IF nl = {} THEN <<s>>
        ELSE <<SubSeq(s, 1, SetMin(nl) - 1)>> \o SplitLines(SubSeq(s, SetMin(nl) + 1, Len(s)))

\* ------------------------------------------------ translate_batch, pure parts
\* faulty variant: no text is filtered out
ValidIndices_NoFilter(texts) == [k \in 1..Len(texts) |-> k]

\* positions (1-based) of the texts with a non-blank content, in order
\* (the first components of valid_indices)
ValidIndices(texts) ==
    SelectSeq([k \in 1..Len(texts) |-> k], LAMBDA k : Strip(texts[k]) # <<>>)

\* the second components of valid_indices
ValidTexts(texts) ==
    LET idx == ValidIndices(texts) IN [k \in 1..Len(idx) |-> texts[idx[k]]]

\* "\n".join(f"{i+1}. {text}" ...), as the sequence of joined items
FormattedInput(valid_texts) ==
    [k \in 1..Len(valid_texts) |-> DecimalDigits(k) \o <<".", " ">> \o valid_texts[k]]

\* re.match(r'^\d+[.。、\s]*(.+)$', line): group(1).strip() if it matches, else line.
\* The line is stripped and non-empty.  Greedy matching with backtracking:
\* when nothing follows the digits and separators, the group takes the last
\* character of the line; a line of one digit does not match.
ParseReplyLine(line) ==
    LET d == LeadCount(line, Digits)
        rest == SubSeq(line, d + 1, Len(line))
        tail == SubSeq(rest, LeadCount(rest, ReplySeparators) + 1, Len(rest))
    IN  IF d = 0 THEN line
        ELSE IF tail # <<>> THEN Strip(tail)
        ELSE IF Len(line) >= 2 THEN Strip(<<line[Len(line)]>>)
        ELSE line

\* the loop over response.split('\n'): blank lines are skipped
RECURSIVE ParseResponseLines(_)
ParseResponseLines(lines) ==
    IF lines = <<>> THEN <<>>
    ELSE IF Strip(lines[1]) = <<>> THEN ParseResponseLines(Tail(lines))
    ELSE <<ParseReplyLine(Strip(lines[1]))>> \o ParseResponseLines(Tail(lines))

ParseResponse(response) == ParseResponseLines(SplitLines(response))

\* the count repair: pad with '' or truncate to n = len(valid_texts)
AlignTranslations(trs, n) ==
    IF Len(trs) = n THEN trs
    ELSE IF Len(trs) < n THEN trs \o [k \in 1..(n - Len(trs)) |-> <<>>]
    ELSE SubSeq(trs, 1, n)

\* faulty variant: the translations are stored by their rank, not by idx
RestorePositions_ByRank(n, indices, trs) ==
    [p \in 1..n |-> IF p <= Len(trs) /\ p <= Len(indices) THEN trs[p] ELSE <<>>]

\* result = [''] * len(texts); for idx, trans in zip(indices, translations)
RestorePositions(n, indices, trs) ==
    [p \in 1..n |->
        LET hits == {k \in 1..Len(indices) : k <= Len(trs) /\ indices[k] = p}
        IN  IF hits = {} THEN <<>> ELSE trs[SetMax(hits)]]

\* ------------------------------------------------------------ input domains
\* source texts a parser can put into an entry (stripped, non-empty): one that
\* clean_text empties, one with an enumeration prefix and final punctuation,
\* one that clean_text turns into a single space
SourceTexts ==
    { <<"1", ".">>, <<"2", ".", " ", "b", "!">>, <<"!", " ", "?">> }

\* canonical HH:MM:SS,mmm time of the k-th entry of an input document
EntryTime(k) ==
    <<"0", "0", ":", "0", "0", ":", "0">> \o DecimalDigits(k % 10) \o <<",", "0", "0", "0">>

\* SubtitleEntry(index, start_time, end_time, source_text), target_text = ""
SubtitleEntry(index, start_time, end_time, source_text) ==
    [index |-> index, start_time |-> start_time, end_time |-> end_time,
     source_text |-> source_text, target_text |-> <<>>]

\* the documents a parser returns for the input files considered
Documents ==
    UNION { { [k \in 1..n |-> SubtitleEntry(k, EntryTime(k), EntryTime(k + 1), txt[k])]
              : txt \in [1..n -> SourceTexts] } : n \in 0..MaxEntries }

\* lines the gateway may put into a reply: blank, plain, numbered
ReplyLines == { <<>>, <<"x">>, <<"1", ".", " ", "y">> }

\* reply strings of the gateway: message.content of the completion
Replies(prompt) ==
    LET maxLines == IF prompt = "batch" THEN MaxReplyLines ELSE 1
    IN  { JoinLines(ls) : ls \in UNION { [1..n -> ReplyLines] : n \in 0..maxLines } }

\* batch_size: int = 50, the value single mode leaves unused
DefaultBatchSize == 50

\* exception classes the gateway client raises
FailureKinds == {"transient", "fatal"}

\* ------------------------------------------------------------------- state
VARIABLES
    pc,                 \* position of process_subtitles / translate_subtitles
    error,              \* exception that ended the run, "none" if none
    config,             \* max_retries and retry_delay of the loaded configuration
    translation_mode,   \* "single" or "batch"
    batch_size,
    entries,            \* the document
    i,                  \* loop position of translate_subtitles (entries done / window offset)
    requests,           \* make_request invocations of the current entry or window, in order
    results,            \* outcome of each gateway call of the latest make_request
    delays,             \* waits taken by the latest make_request
    attempt,            \* loop variable of the running make_request
    delay,              \* argument of the running asyncio.sleep
    fallback,           \* translations list of the per-line fallback of translate_batch
    translations,       \* list last returned by translate_batch
    sent,               \* positions of the entries whose text went into a gateway call
    calls,              \* gateway calls made for the current entry or window
    output_file,        \* the output file: exists, and the lines written
    file_type,          \* class of the suffix of input_path (get_file_type)
    mode,               \* mode of process_file: "all", "subtitle" or "translate"
    input_lines,        \* the lines of the file the parser reads
    line_i,             \* parse_srt: i;  parse_lrcx: number of lines already read
    current_entry,      \* parse_srt: current_entry
    lrcx_index,         \* parse_lrcx: index
    chineseOnly,        \* chinese_only argument of a writer called on its own
    codec,              \* a time on its way through format_time and parse_time
    runs,               \* concurrent calls of translate_subtitles, one record each
    api_instance        \* APIClient._instance, shared by every call in the process

vars == <<pc, error, config, translation_mode, batch_size, entries, i, requests, results,
          delays, attempt, delay, fallback, translations, sent, calls, output_file,
          file_type, mode, input_lines, line_i, current_entry, lrcx_index, chineseOnly,
          codec, runs, api_instance>>

\* the state of process_file, of the parsers and of a writer called on its own
file_vars == <<file_type, mode, input_lines, line_i, current_entry, lrcx_index, chineseOnly,
               codec, runs, api_instance>>

\* the state looked at only when the time conversions are called on their
\* own or two calls of translate_subtitles run side by side
side_vars == <<codec, runs, api_instance>>

\* the state of translate_subtitles and make_request
translate_vars == <<config, translation_mode, batch_size, i, requests, results, delays,
                    attempt, delay, fallback, translations, sent, calls>>

\* current_entry = None
None == [none |-> TRUE]

\* index = 1
FirstIndex == 1

\* no time is being converted
NoCodec == [canonical |-> <<>>, tag |-> <<>>, back |-> <<>>]

\* no time is being converted, and the single call of translate_subtitles is
\* the one the other variables describe
NoSideState ==
    /\ codec = NoCodec
    /\ runs = <<>>
    /\ api_instance = None

\* process_subtitles called on a subtitle file: nothing of process_file or of
\* the parsers is looked at
NoFileState ==
    /\ file_type = "subtitle"
    /\ mode = "translate"
    /\ input_lines = <<>>
    /\ line_i = 0
    /\ current_entry = None
    /\ lrcx_index = FirstIndex
    /\ chineseOnly = FALSE
    /\ NoSideState

NoFile == [exists |-> FALSE, lines |-> <<>>]

Init ==
    /\ pc = "parse"
    /\ error = "none"
    /\ config \in [max_retries : 0..MaxRetries, retry_delay : 1..MaxDelay]
    /\ translation_mode \in {"single", "batch"}
    /\ batch_size \in (IF translation_mode = "batch" THEN 1..MaxBatch ELSE {DefaultBatchSize})
    /\ entries = <<>>
    /\ i = 0
    /\ requests = <<>>
    /\ results = <<>>
    /\ delays = <<>>
    /\ attempt = 0
    /\ delay = 0
    /\ fallback = <<>>
    /\ translations = <<>>
    /\ sent = {}
    /\ calls = 0
    /\ output_file = NoFile
    /\ NoFileState

\* ------------------------------------------------------------ make_request
\* a make_request invocation: the prompt used, the entries whose text it
\* carries, the user message, how it ended, the content of the gateway's
\* reply and the value make_request returned
NewRequest(prompt, positions, content) ==
    [prompt |-> prompt, positions |-> positions, content |-> content,
     outcome |-> "pending", reply |-> <<>>, returned |-> <<>>]

\* a make_request invocation that did not get a reply
FailedRequest(prompt, positions, content) ==
    [NewRequest(prompt, positions, content) EXCEPT !.outcome = "failed"]

\* faulty variant: the last attempt is recognised one iteration too late
IsLastAttempt_OneTooMany(a, max_retries) == a = max_retries

\* if attempt == max_retries - 1
IsLastAttempt(a, max_retries) == a = max_retries - 1

\* faulty variant: the exponent counts the attempts from 1
BackoffDelay_FromOne(retry_delay, a) == retry_delay * Pow2(a + 1)

\* delay = retry_delay * (2 ** attempt)
BackoffDelay(retry_delay, a) == retry_delay * Pow2(a)

\* for attempt in range(max_retries): is there a first iteration
HasAttempt(max_retries) == max_retries >= 1

Current == requests[Len(requests)]

\* the requests of the current entry or window with the latest one replaced,
\* and the calls and waits recorded for it
Trace(reqs, res, dls, n) == [requests |-> reqs, results |-> res, delays |-> dls, calls |-> n]

EmptyTrace == Trace(<<>>, <<>>, <<>>, 0)

Ended(outcome, reply, value, res) ==
    Trace([requests EXCEPT ![Len(requests)] =
               [@ EXCEPT !.outcome = outcome, !.reply = reply, !.returned = value]],
          res, delays, calls)

\* no request has been made
SetTraceInit == requests = <<>> /\ results = <<>> /\ delays = <<>> /\ calls = 0

SetTrace(t) ==
    /\ requests' = t.requests
    /\ results' = t.results
    /\ delays' = t.delays
    /\ calls' = t.calls

\* ------------------------------------------------------------------ writers
\* s.split(c) for a one-character separator: always at least one element
RECURSIVE SplitOn(_, _)
SplitOn(s, c) ==
    LET at == {k \in 1..Len(s) : s[k] = c}
    IN  IF at = {} THEN <<s>>
        ELSE <<SubSeq(s, 1, SetMin(at) - 1)>> \o SplitOn(SubSeq(s, SetMin(at) + 1, Len(s)), c)

\* int(s) succeeds: optional surrounding whitespace around decimal digits
IsInt(s) == Strip(s) # <<>> /\ \A k \in 1..Len(Strip(s)) : Strip(s)[k] \in Digits

DigitValue(c) == CHOOSE v \in 0..9 : ToString(v) = c

RECURSIVE IntOfDigits(_)
IntOfDigits(ds) ==
    IF ds = <<>> THEN 0
    ELSE 10 * IntOfDigits(SubSeq(ds, 1, Len(ds) - 1)) + DigitValue(ds[Len(ds)])

\* int(s) for a string accepted by IsInt
ParseInt(s) == IntOfDigits(Strip(s))

\* f"{n:02d}"
TwoDigits(n) == IF n < 10 THEN <<"0">> \o DecimalDigits(n) ELSE DecimalDigits(n)

\* format_time(time_str, to_lrc=True); any exception returns time_str
format_time(time_str) ==
    LET hms == SplitOn(time_str, ":")
        sms == SplitOn(hms[3], ",")
        total_seconds == ParseInt(hms[1]) * 3600 + ParseInt(hms[2]) * 60 + ParseInt(sms[1])
    IN  IF Len(hms) # 3 THEN time_str
        ELSE IF Len(sms) # 2 THEN time_str
        ELSE IF ~(IsInt(hms[1]) /\ IsInt(hms[2]) /\ IsInt(sms[1])) THEN time_str
        ELSE <<"[">> \o TwoDigits(total_seconds \div 60) \o <<":">>
             \o TwoDigits(total_seconds % 60) \o <<".">>
             \o SubSeq(sms[2], 1, IF Len(sms[2]) < 2 THEN Len(sms[2]) ELSE 2) \o <<"]">>

Arrow == <<" ", "-", "-", ">", " ">>
TranslationTag == <<"[", "t", "r", ":", "z", "h", "-", "H", "a", "n", "s", "]">>
VersionLine == <<"[", "v", "e", "r", ":", "1", ".", "0", "]">>
OffsetLine == <<"[", "o", "f", "f", "s", "e", "t", ":", "0", "]">>

\* faulty variant: the writers do not test for an empty document
NoEntries_Unchecked(es) == FALSE

\* if not entries: raise ValueError  (both writers, before open())
NoEntries(es) == es = <<>>

\* faulty variant: the block is numbered by the entry's index field
SrtBlock_ByIndex(k, e, chinese_only) ==
    <<DecimalDigits(e.index), e.start_time \o Arrow \o e.end_time, e.target_text>>
    \o (IF chinese_only THEN <<>> ELSE <<e.source_text>>)
    \o << <<>> >>

\* the lines save_srt writes for the k-th entry
SrtBlock(k, e, chinese_only) ==
    <<DecimalDigits(k), e.start_time \o Arrow \o e.end_time, e.target_text>>
    \o (IF chinese_only THEN <<>> ELSE <<e.source_text>>)
    \o << <<>> >>

RECURSIVE SrtLines(_, _, _)
SrtLines(es, k, chinese_only) ==
    IF k > Len(es) THEN <<>>
    ELSE SrtBlock(k, es[k], chinese_only) \o SrtLines(es, k + 1, chinese_only)

\* the lines save_srt writes into the opened file
save_srt(es, chinese_only) == SrtLines(es, 1, chinese_only)

\* faulty variant: no translation line for an empty normalized target
LrcxBlock_SkipEmptyTarget(e, chinese_only) ==
    IF Strip(e.source_text) = <<>> THEN <<>>
    ELSE <<format_time(e.start_time) \o clean_text(e.source_text)>>
         \o (IF chinese_only \/ clean_text(e.target_text) = <<>> THEN <<>>
             ELSE <<format_time(e.start_time) \o TranslationTag \o clean_text(e.target_text)>>)

\* the lines save_lrcx writes for one entry
LrcxBlock(e, chinese_only) ==
    IF Strip(e.source_text) = <<>> THEN <<>>
    ELSE <<format_time(e.start_time) \o clean_text(e.source_text)>>
         \o (IF chinese_only THEN <<>>
             ELSE <<format_time(e.start_time) \o TranslationTag \o clean_text(e.target_text)>>)

RECURSIVE LrcxLines(_, _, _)
LrcxLines(es, k, chinese_only) ==
    IF k > Len(es) THEN <<>>
    ELSE LrcxBlock(es[k], chinese_only) \o LrcxLines(es, k + 1, chinese_only)

\* the lines save_lrcx writes into the opened file
save_lrcx(es, chinese_only) == <<VersionLine, OffsetLine>> \o LrcxLines(es, 1, chinese_only)

\* the writer process_subtitles selects from the suffix of output_path:
\* save_lrcx for .lrcx, save_srt otherwise
save_subtitle(es, chinese_only, format_type) ==
    IF format_type = "lrcx" THEN save_lrcx(es, chinese_only) ELSE save_srt(es, chinese_only)

\* ----------------------------------------------------------------- parsers
\* s.startswith(p)
StartsWith(s, p) == Len(s) >= Len(p) /\ SubSeq(s, 1, Len(p)) = p

\* the positions at which p occurs in s
Occurrences(s, p) == {k \in 1..(Len(s) - Len(p) + 1) : SubSeq(s, k, k + Len(p) - 1) = p}

\* p in s
Contains(s, p) == Occurrences(s, p) # {}

\* s.split(sep) for a separator of one or more characters
RECURSIVE SplitOnSeq(_, _)
SplitOnSeq(s, sep) ==
    IF ~Contains(s, sep) THEN <<s>>
    ELSE LET k == SetMin(Occurrences(s, sep))
         IN  <<SubSeq(s, 1, k - 1)>> \o SplitOnSeq(SubSeq(s, k + Len(sep), Len(s)), sep)

\* s.isdigit()
isdigit(s) == s # <<>> /\ \A k \in 1..Len(s) : s[k] \in Digits

\* f"{n:03d}"
ThreeDigits(n) ==
    IF n < 10 THEN <<"0", "0">> \o DecimalDigits(n)
    ELSE IF n < 100 THEN <<"0">> \o DecimalDigits(n)
    ELSE DecimalDigits(n)

\* TIME_PATTERN.match(time_str): ^\d{2}:\d{2}:\d{2},\d{3}$
TIME_PATTERN(time_str) ==
    /\ Len(time_str) = 12
    /\ \A k \in {1, 2, 4, 5, 7, 8, 10, 11, 12} : time_str[k] \in Digits
    /\ time_str[3] = ":" /\ time_str[6] = ":" /\ time_str[9] = ","

\* SubtitleEntry.__post_init__ raises ValueError
InvalidTime(start_time, end_time) ==
    /\ start_time # <<>>
    /\ end_time # <<>>
    /\ ~(TIME_PATTERN(start_time) /\ TIME_PATTERN(end_time))

\* parse_time without the zero appended to the fraction
parse_time_NoPad(time_str) ==
    LET ms_parts == SplitOn(time_str, ":")
        sf == SplitOn(ms_parts[2], ".")
        minutes == ms_parts[1]
        seconds == sf[1]
        ms == sf[2]
    IN  IF Len(ms_parts) # 2 THEN time_str
        ELSE IF Len(sf) # 2 THEN time_str
        ELSE IF ~(IsInt(minutes) /\ IsInt(seconds) /\ IsInt(ms)) THEN time_str
        ELSE <<"0", "0", ":">> \o TwoDigits(ParseInt(minutes)) \o <<":">>
             \o TwoDigits(ParseInt(seconds)) \o <<",">> \o ThreeDigits(ParseInt(ms))

\* parse_time(time_str, from_lrc=True); any exception returns time_str
parse_time(time_str) ==
    LET ms_parts == SplitOn(time_str, ":")
        sf == SplitOn(ms_parts[2], ".")
        minutes == ms_parts[1]
        seconds == sf[1]
        ms == sf[2] \o <<"0">>
    IN  IF Len(ms_parts) # 2 THEN time_str
        ELSE IF Len(sf) # 2 THEN time_str
        ELSE IF ~(IsInt(minutes) /\ IsInt(seconds) /\ IsInt(ms)) THEN time_str
        ELSE <<"0", "0", ":">> \o TwoDigits(ParseInt(minutes)) \o <<":">>
             \o TwoDigits(ParseInt(seconds)) \o <<",">> \o ThreeDigits(ParseInt(ms))

\* s.find(c), counted from 0; -1 when c is not in s
Find(s, c) == IF \E k \in 1..Len(s) : s[k] = c
              THEN SetMin({k \in 1..Len(s) : s[k] = c}) - 1
              ELSE -1

\* s[a:b] for 0 <= a and any b, a negative b counted from the end
Slice(s, a, b) ==
    LET e == IF b < 0 THEN Len(s) + b ELSE IF b > Len(s) THEN Len(s) ELSE b
    IN  IF e <= a THEN <<>> ELSE SubSeq(s, a + 1, e)

\* ------------------------------------------------ translate_subtitles: steps
SeqRange(q) == {q[k] : k \in 1..Len(q)}

\* number of entries of the window that starts after i: len(entries[i:i+batch_size])
WindowLen == IF Len(entries) - i < batch_size THEN Len(entries) - i ELSE batch_size

\* texts = [clean_text(e.source_text) for e in batch]
WindowTexts == [k \in 1..WindowLen |-> clean_text(entries[i + k].source_text)]

\* faulty variant: the translations are zipped with the head of the document
WriteTargets_FromStart(es, result) ==
    [k \in 1..Len(es) |->
        IF k <= Len(result)
        THEN [es[k] EXCEPT !.target_text = Strip(result[k])]
        ELSE es[k]]

\* for entry, trans in zip(batch, translations): entry.target_text = trans.strip()
WriteTargets(es, result) ==
    [k \in 1..Len(es) |->
        IF k > i /\ k <= i + WindowLen /\ k <= i + Len(result)
        THEN [es[k] EXCEPT !.target_text = Strip(result[k - i])]
        ELSE es[k]]

\* faulty variant: the exception is logged and not raised again, the run goes on
AfterTranslationError_Swallowed == "save"

\* where an exception raised inside translate_subtitles leaves the run:
\* except Exception: log_detail(...); raise
AfterTranslationError == "error"

\* make_request enters its loop and awaits the first gateway call
IssueRequest(t, prompt, positions, content, fb) ==
    /\ SetTrace(Trace(Append(t.requests, NewRequest(prompt, positions, content)),
                      <<>>, <<>>, t.calls + 1))
    /\ attempt' = 0
    /\ delay' = 0
    /\ pc' = "call"
    /\ sent' = sent \cup SeqRange(positions)
    /\ fallback' = fb
    /\ UNCHANGED <<error, entries, i, translations>>

\* faulty variant: the loop advances by one entry
FinishWindow_ByOne(result, t) ==
    /\ translations' = result
    /\ entries' = WriteTargets(entries, result)
    /\ i' = i + 1
    /\ SetTrace(t)
    /\ fallback' = <<>>
    /\ attempt' = 0
    /\ delay' = 0
    /\ pc' = "loop"
    /\ UNCHANGED <<error, sent>>

\* translate_batch returns result; translate_subtitles writes the window
FinishWindow(result, t) ==
    /\ translations' = result
    /\ entries' = WriteTargets(entries, result)
    /\ i' = i + batch_size
    /\ SetTrace(t)
    /\ fallback' = <<>>
    /\ attempt' = 0
    /\ delay' = 0
    /\ pc' = "loop"
    /\ UNCHANGED <<error, sent>>

\* faulty variant: the loop stays at the entry it has written
FinishEntry_SameEntry(trans, t) ==
    /\ entries' = [entries EXCEPT ![i + 1].target_text = Strip(trans)]
    /\ i' = i
    /\ SetTrace(t)
    /\ attempt' = 0
    /\ delay' = 0
    /\ pc' = "loop"
    /\ UNCHANGED <<error, fallback, translations, sent>>

\* translate_single returns trans; translate_subtitles writes the entry
FinishEntry(trans, t) ==
    /\ entries' = [entries EXCEPT ![i + 1].target_text = Strip(trans)]
    /\ i' = i + 1
    /\ SetTrace(t)
    /\ attempt' = 0
    /\ delay' = 0
    /\ pc' = "loop"
    /\ UNCHANGED <<error, fallback, translations, sent>>

\* the exception leaves translate_subtitles and process_subtitles
Abort(t, exc) ==
    /\ pc' = AfterTranslationError
    /\ error' = exc
    /\ SetTrace(t)
    /\ attempt' = 0
    /\ delay' = 0
    /\ UNCHANGED <<entries, i, fallback, translations, sent>>

\* the value the fallback loop appends when translate_single raises TranslationError
FallbackOnError == <<>>

\* fallback loop of translate_batch, fb being the translations appended so far:
\* the next kept text goes to translate_single, or the result is assembled
FallbackStep(t, fb) ==
    LET texts == WindowTexts
        valid == ValidIndices(texts)
        next == valid[Len(fb) + 1]
    IN  IF Len(fb) >= Len(valid)
        THEN FinishWindow(RestorePositions(Len(texts), valid, fb), t)
        ELSE IF HasAttempt(config.max_retries)
        THEN IssueRequest(t, "single", <<i + next>>, <<texts[next]>>, fb)
        ELSE \* every translate_single fails without a gateway call
             LET rest == [k \in 1..(Len(valid) - Len(fb)) |->
                             FailedRequest("single", <<i + valid[Len(fb) + k]>>,
                                           <<texts[valid[Len(fb) + k]]>>)]
                 all == fb \o [k \in 1..(Len(valid) - Len(fb)) |-> FallbackOnError]
             IN  FinishWindow(RestorePositions(Len(texts), valid, all),
                              Trace(t.requests \o rest, <<>>, <<>>, t.calls))

\* make_request returned value; translate_text returns value.strip()
RequestSucceeded(t, value) ==
    LET v == Strip(value)
        texts == WindowTexts
        valid == ValidIndices(texts)
    IN  IF translation_mode # "batch" THEN FinishEntry(v, t)
        ELSE IF Current.prompt = "batch"
        THEN FinishWindow(
                 RestorePositions(Len(texts), valid,
                                  AlignTranslations(ParseResponse(v), Len(valid))),
                 t)
        ELSE FallbackStep(t, Append(fallback, v))

\* faulty variant: a failing per-line request ends the fallback with the error
RequestFailed_NoInnerExcept(t) ==
    IF translation_mode # "batch" THEN Abort(t, "TranslationError")
    ELSE IF Current.prompt = "batch" THEN FallbackStep(t, <<>>)
    ELSE Abort(t, "TranslationError")

\* translate_text raised TranslationError
RequestFailed(t) ==
    IF translation_mode # "batch" THEN Abort(t, "TranslationError")
    ELSE IF Current.prompt = "batch" THEN FallbackStep(t, <<>>)
    ELSE FallbackStep(t, Append(fallback, FallbackOnError))

\* ----------------------------------------------------------------- actions
\* process_subtitles: parse_srt / parse_lrcx returns the document
Parse ==
    /\ pc = "parse"
    /\ \E doc \in Documents : entries' = doc
    /\ pc' = "loop"
    /\ UNCHANGED <<error, config, translation_mode, batch_size, i, requests, results,
                   delays, attempt, delay, fallback, translations, sent, calls, output_file>>
    /\ UNCHANGED file_vars

\* single mode, next entry: clean_text, translate_single, translate_text,
\* up to the first gateway call of make_request
DispatchEntry ==
    /\ pc = "loop"
    /\ translation_mode # "batch"
    /\ i < Len(entries)
    /\ LET clean_source == clean_text(entries[i + 1].source_text)
       IN  IF Strip(clean_source) = <<>> THEN FinishEntry(<<>>, EmptyTrace)
           ELSE IF HasAttempt(config.max_retries)
           THEN IssueRequest(EmptyTrace, "single", <<i + 1>>, <<clean_source>>, <<>>)
           ELSE Abort(Trace(<<FailedRequest("single", <<i + 1>>, <<clean_source>>)>>,
                            <<>>, <<>>, 0),
                      "TranslationError")
    /\ UNCHANGED <<config, translation_mode, batch_size, output_file>>
    /\ UNCHANGED file_vars

\* batch mode, next window: clean_text of each entry, translate_batch up to
\* the first gateway call of the batch request
DispatchWindow ==
    /\ pc = "loop"
    /\ translation_mode = "batch"
    /\ i < Len(entries)
    /\ LET texts == WindowTexts
           valid == ValidIndices(texts)
           positions == [k \in 1..Len(valid) |-> i + valid[k]]
           content == FormattedInput(ValidTexts(texts))
       IN  IF valid = <<>>
           THEN FinishWindow([k \in 1..Len(texts) |-> <<>>], EmptyTrace)
           ELSE IF HasAttempt(config.max_retries)
           THEN IssueRequest(EmptyTrace, "batch", positions, content, <<>>)
           ELSE FallbackStep(Trace(<<FailedRequest("batch", positions, content)>>,
                                   <<>>, <<>>, 0),
                             <<>>)
    /\ UNCHANGED <<config, translation_mode, batch_size, output_file>>
    /\ UNCHANGED file_vars

\* the gateway answers the pending call: make_request returns the stripped content
GatewayReply ==
    /\ pc = "call"
    /\ \E reply \in Replies(Current.prompt) :
          RequestSucceeded(Ended("ok", reply, Strip(reply), Append(results, "ok")), Strip(reply))
    /\ UNCHANGED <<config, translation_mode, batch_size, output_file>>
    /\ UNCHANGED file_vars

\* the pending call raises: except Exception in make_request
GatewayFail ==
    /\ pc = "call"
    /\ \E kind \in FailureKinds :
          IF IsLastAttempt(attempt, config.max_retries)
          THEN RequestFailed(Ended("failed", <<>>, <<>>, Append(results, kind)))
          ELSE /\ delay' = BackoffDelay(config.retry_delay, attempt)
               /\ results' = Append(results, kind)
               /\ delays' = Append(delays, BackoffDelay(config.retry_delay, attempt))
               /\ pc' = "sleep"
               /\ UNCHANGED <<error, entries, i, requests, attempt, fallback,
                              translations, sent, calls>>
    /\ UNCHANGED <<config, translation_mode, batch_size, output_file>>
    /\ UNCHANGED file_vars

\* asyncio.sleep(delay) is over: next iteration of the loop, next gateway call
Wake ==
    /\ pc = "sleep"
    /\ attempt' = attempt + 1
    /\ calls' = calls + 1
    /\ pc' = "call"
    /\ UNCHANGED <<error, config, translation_mode, batch_size, entries, i, requests,
                   results, delays, delay, fallback, translations, sent, output_file>>
    /\ UNCHANGED file_vars

\* translate_subtitles: the loop is over, the document is returned and the
\* locals of the translation step are gone
Return ==
    /\ pc = "loop"
    /\ i >= Len(entries)
    /\ pc' = "save"
    /\ SetTrace(EmptyTrace)
    /\ translations' = <<>>
    /\ UNCHANGED <<error, config, translation_mode, batch_size, entries, i,
                   attempt, delay, fallback, sent, output_file>>
    /\ UNCHANGED file_vars

\* the run is interrupted between entries or windows, or while it is suspended
\* in a gateway call or in a backoff sleep (KeyboardInterrupt / CancelledError
\* are not caught by except Exception); the locals of the translation step
\* are gone with the unwinding
Cancel ==
    /\ pc \in {"loop", "call", "sleep"}
    /\ pc' = "cancelled"
    /\ error' = "Cancelled"
    /\ SetTrace(EmptyTrace)
    /\ attempt' = 0
    /\ delay' = 0
    /\ fallback' = <<>>
    /\ translations' = <<>>
    /\ UNCHANGED <<config, translation_mode, batch_size, entries, i, sent, output_file>>
    /\ UNCHANGED file_vars

\* process_subtitles: save_subtitle(translated_entries, output_path, chinese_only, format_type)
Save ==
    /\ pc = "save"
    /\ \E chinese_only \in BOOLEAN, format_type \in {"srt", "lrcx"} :
          IF NoEntries(entries)
          THEN /\ pc' = "error"
               /\ error' = "ValueError"
               /\ UNCHANGED output_file
          ELSE /\ output_file' = [exists |-> TRUE,
                                  lines |-> save_subtitle(entries, chinese_only, format_type)]
               /\ pc' = "done"
               /\ UNCHANGED error
    /\ UNCHANGED <<config, translation_mode, batch_size, entries, i, requests, results,
                   delays, attempt, delay, fallback, translations, sent, calls>>
    /\ UNCHANGED file_vars

Next ==
    \/ Parse
    \/ DispatchEntry
    \/ DispatchWindow
    \/ GatewayReply
    \/ GatewayFail
    \/ Wake
    \/ Return
    \/ Cancel
    \/ Save

Spec == Init /\ [][Next]_vars

\* ------------------------------------------------- process_file and parsers
\* "translation": {"max_retries": 3, "retry_delay": 1}
DefaultConfig == [max_retries |-> 3, retry_delay |-> 1]

\* SUPPORTED_FORMATS by class, and any other suffix
FileTypes == {"video", "audio", "subtitle", "lyric", "other"}

\* get_file_type(file_path)
get_file_type(ft) ==
    [is_video |-> ft = "video", is_audio |-> ft = "audio",
     is_subtitle |-> ft = "subtitle", is_lyric |-> ft = "lyric"]

Modes == {"all", "subtitle", "translate"}

\* validate_mode(file_types, mode): the mode returned, "ValueError" when it raises
validate_mode(file_types, m) ==
    IF (file_types.is_subtitle \/ file_types.is_lyric) /\ m = "all" THEN "translate"
    ELSE IF m = "subtitle" /\ ~(file_types.is_video \/ file_types.is_audio) THEN "ValueError"
    ELSE IF m = "subtitle" /\ file_types.is_subtitle THEN "ValueError"
    ELSE IF m = "translate" /\ (file_types.is_video \/ file_types.is_audio) THEN "ValueError"
    ELSE m

Time1 == <<"0", "0", ":", "0", "0", ":", "0", "1", ",", "0", "0", "0">>
Time2 == <<"0", "0", ":", "0", "0", ":", "0", "2", ",", "5", "0", "0">>

\* a timing line of two canonical times
GoodTiming == Time1 \o Arrow \o Time2

\* a timing line that splits into three parts
ThreeTimes == Time1 \o Arrow \o Time2 \o Arrow \o Time1

\* a timing line of two parts that are not canonical times
LooseTiming == <<"0", ":", "1">> \o Arrow \o <<"x">>

\* a text line with surrounding whitespace
TextLine == <<" ", "h", "i", " ">>

\* a complete block with index line k
WellFormed(k) == <<DecimalDigits(k), GoodTiming, <<"y", "o">>, <<>>>>

\* the pieces input SRT files are made of: complete blocks numbered 1 and 2,
\* and single lines of every kind parse_srt tells apart
SrtPieces ==
    { WellFormed(1), WellFormed(2), << <<>> >>, << <<"7">> >>, <<GoodTiming>>,
      <<ThreeTimes>>, <<LooseTiming>>, <<TextLine>> }

RECURSIVE Flatten(_)
Flatten(seqs) == IF seqs = <<>> THEN <<>> ELSE Head(seqs) \o Flatten(Tail(seqs))

\* the SRT input files considered
SrtFiles ==
    UNION { { Flatten(ps) : ps \in [1..n -> SrtPieces] } : n \in 0..MaxBlocks }

\* the lines input lyric files are made of
LrcxInputLines ==
    { <<>>,
      VersionLine,
      OffsetLine,
      <<"[", "0", "0", ":", "0", "1", ".", "0", "0", "]", "a">>,
      <<"[", "0", "1", ":", "0", "2", ".", "5", "]", " ", "2", ".", " ", "b">>,
      <<"[", "0", "0", ":", "0", "1", ".", "0", "0", "]">> \o TranslationTag \o <<"x">>,
      <<"[", "0", "0", ":", "0", "3", ".", "0", "0", "]", " ">>,
      <<"c">>,
      <<"[", "x", "]", "d">>,
      <<"[", "e">> }

\* the lyric input files considered
LrcxFiles == UNION { [1..n -> LrcxInputLines] : n \in 0..MaxLines }

\* what process_media writes for a media file: whisper's SRT output
MediaSubtitles == { Flatten(<<WellFormed(1)>>), Flatten(<<WellFormed(1), WellFormed(2)>>) }

\* the file at input_path by class of suffix; a file of another suffix may
\* hold anything, SRT text included
InputFiles(ft) ==
    CASE ft = "subtitle" -> SrtFiles
      [] ft = "lyric" -> LrcxFiles
      [] ft = "other" -> { Flatten(<<WellFormed(1)>>), <<TextLine>> }
      [] OTHER -> { <<>> }

\* translate_subtitles has not been entered
NoTranslation ==
    /\ config = DefaultConfig
    /\ translation_mode = "single"
    /\ batch_size = DefaultBatchSize
    /\ i = 0
    /\ SetTraceInit
    /\ attempt = 0
    /\ delay = 0
    /\ fallback = <<>>
    /\ translations = <<>>
    /\ sent = {}

FileInit ==
    /\ pc = "process_file"
    /\ error = "none"
    /\ file_type \in FileTypes
    /\ mode \in Modes
    /\ input_lines \in InputFiles(file_type)
    /\ line_i = 0
    /\ current_entry = None
    /\ lrcx_index = FirstIndex
    /\ chineseOnly = FALSE
    /\ NoSideState
    /\ entries = <<>>
    /\ output_file = NoFile
    /\ NoTranslation

\* the parser process_subtitles selects
ParserOf(file_types) == IF file_types.is_lyric THEN "parse_lrcx" ELSE "parse_srt"

\* process_file up to the first await or call: get_file_type, validate_mode,
\* and for a file that is neither video nor audio the call of process_subtitles
ProcessFile ==
    /\ pc = "process_file"
    /\ LET file_types == get_file_type(file_type)
           m == validate_mode(file_types, mode)
       IN  IF m = "ValueError"
           THEN /\ pc' = "error"
                /\ error' = "ValueError"
                /\ UNCHANGED mode
           ELSE /\ mode' = m
                /\ UNCHANGED error
                /\ pc' = IF file_types.is_video \/ file_types.is_audio THEN "media"
                         ELSE IF m \in {"all", "translate"} THEN ParserOf(file_types)
                         ELSE "done"
    /\ UNCHANGED <<file_type, input_lines, line_i, current_entry, lrcx_index, chineseOnly,
                   entries, output_file>>
    /\ UNCHANGED side_vars
    /\ UNCHANGED translate_vars

\* process_media_file returns the generated SRT file, or process_media raises
ProcessMediaFile ==
    /\ pc = "media"
    /\ \/ /\ \E srt \in MediaSubtitles : input_lines' = srt
          /\ pc' = IF mode = "subtitle" THEN "done" ELSE "parse_srt"
          /\ UNCHANGED error
       \/ /\ pc' = "error"
          /\ error' = "WhisperProcessError"
          /\ UNCHANGED input_lines
    /\ UNCHANGED <<file_type, mode, line_i, current_entry, lrcx_index, chineseOnly,
                   entries, output_file>>
    /\ UNCHANGED side_vars
    /\ UNCHANGED translate_vars


\* lines = [line.strip() for line in f]
StrippedLines == [k \in 1..Len(input_lines) |-> Strip(input_lines[k])]

\* lines[i]
CurrentLine == StrippedLines[line_i + 1]

\* faulty variant: the closed entry is put in front of the document
CloseEntry_InFront(es, ce) ==
    IF ce # None /\ ce.source_text # <<>> THEN <<ce>> \o es ELSE es

\* if current_entry and current_entry.source_text: entries.append(current_entry)
CloseEntry(es, ce) ==
    IF ce # None /\ ce.source_text # <<>> THEN Append(es, ce) ELSE es

\* what the parser steps leave alone
ParserFrame ==
    /\ UNCHANGED <<file_type, mode, input_lines, chineseOnly, output_file>>
    /\ UNCHANGED side_vars
    /\ UNCHANGED translate_vars

\* parse_srt, a blank line: if not line
SrtBlankLine ==
    /\ pc = "parse_srt"
    /\ line_i < Len(input_lines)
    /\ CurrentLine = <<>>
    /\ entries' = CloseEntry(entries, current_entry)
    /\ current_entry' = None
    /\ line_i' = line_i + 1
    /\ UNCHANGED <<pc, error, lrcx_index>>
    /\ ParserFrame

\* parse_srt, an index line: if line.isdigit()
SrtIndexLine ==
    /\ pc = "parse_srt"
    /\ line_i < Len(input_lines)
    /\ isdigit(CurrentLine)
    /\ current_entry' = SubtitleEntry(ParseInt(CurrentLine), <<>>, <<>>, <<>>)
    /\ line_i' = line_i + 1
    /\ UNCHANGED <<pc, error, entries, lrcx_index>>
    /\ ParserFrame

\* start, end = line.split(' --> ') unpacks
TimingAccepted(parts) == Len(parts) = 2

\* parse_srt, a timing line: if ' --> ' in line and current_entry
SrtTimingLine ==
    /\ pc = "parse_srt"
    /\ line_i < Len(input_lines)
    /\ CurrentLine # <<>>
    /\ ~isdigit(CurrentLine)
    /\ Contains(CurrentLine, Arrow)
    /\ current_entry # None
    /\ LET parts == SplitOnSeq(CurrentLine, Arrow)
       IN  IF TimingAccepted(parts)
           THEN /\ current_entry' = [current_entry EXCEPT !.start_time = Strip(parts[1]),
                                                          !.end_time = Strip(parts[2])]
                /\ line_i' = line_i + 1
                /\ UNCHANGED <<pc, error>>
           ELSE /\ pc' = "error"
                /\ error' = "ValueError"
                /\ UNCHANGED <<current_entry, line_i>>
    /\ UNCHANGED <<entries, lrcx_index>>
    /\ ParserFrame

\* while i < len(lines) and lines[i].strip() and not lines[i].isdigit()
\*       and ' --> ' not in lines[i]: the lines collected from position k on
RECURSIVE TextLines(_)
TextLines(k) ==
    IF k < Len(input_lines) /\ Strip(StrippedLines[k + 1]) # <<>>
       /\ ~isdigit(StrippedLines[k + 1]) /\ ~Contains(StrippedLines[k + 1], Arrow)
    THEN <<StrippedLines[k + 1]>> \o TextLines(k + 1)
    ELSE <<>>

\* parse_srt, text of the open entry: if current_entry
SrtTextLines ==
    /\ pc = "parse_srt"
    /\ line_i < Len(input_lines)
    /\ CurrentLine # <<>>
    /\ ~isdigit(CurrentLine)
    /\ ~Contains(CurrentLine, Arrow)
    /\ current_entry # None
    /\ current_entry' = [current_entry EXCEPT !.source_text = JoinLines(TextLines(line_i))]
    /\ line_i' = line_i + Len(TextLines(line_i))
    /\ UNCHANGED <<pc, error, entries, lrcx_index>>
    /\ ParserFrame

\* parse_srt, a line outside any entry: else: i += 1
SrtSkipLine ==
    /\ pc = "parse_srt"
    /\ line_i < Len(input_lines)
    /\ CurrentLine # <<>>
    /\ ~isdigit(CurrentLine)
    /\ current_entry = None
    /\ line_i' = line_i + 1
    /\ UNCHANGED <<pc, error, entries, current_entry, lrcx_index>>
    /\ ParserFrame

\* parse_srt, after the loop: the last entry, return entries
SrtEnd ==
    /\ pc = "parse_srt"
    /\ line_i >= Len(input_lines)
    /\ entries' = CloseEntry(entries, current_entry)
    /\ pc' = "parsed"
    /\ UNCHANGED <<error, line_i, current_entry, lrcx_index>>
    /\ ParserFrame

\* parse_lrcx: the line is passed over by the first test of the loop
LrcxSkipped(line) ==
    \/ line = <<>>
    \/ StartsWith(line, <<"[", "v", "e", "r", ":">>)
    \/ StartsWith(line, <<"[", "o", "f", "f", "s", "e", "t", ":">>)
    \/ Contains(line, <<"[", "t", "r", ":">>)

\* time_tag = line[1:line.find(']')]
LrcxTimeTag(line) == Slice(line, 1, Find(line, "]"))

\* text = line[line.find(']')+1:].strip()
LrcxText(line) == Strip(Slice(line, Find(line, "]") + 1, Len(line)))

\* faulty variant: the running counter is not advanced
NextIndex_Stuck(index) == index

\* index += 1
NextIndex(index) == index + 1

\* parse_lrcx, one line of the file: skipped, or an entry appended, or the
\* constructor's ValueError caught and logged
LrcxLine ==
    /\ pc = "parse_lrcx"
    /\ line_i < Len(input_lines)
    /\ LET line == Strip(input_lines[line_i + 1])
           time_str == parse_time(LrcxTimeTag(line))
       IN  IF ~LrcxSkipped(line) /\ StartsWith(line, <<"[">>) /\ LrcxText(line) # <<>>
              /\ ~InvalidTime(time_str, time_str)
           THEN /\ entries' = Append(entries,
                                     SubtitleEntry(lrcx_index, time_str, time_str, LrcxText(line)))
                /\ lrcx_index' = NextIndex(lrcx_index)
           ELSE UNCHANGED <<entries, lrcx_index>>
    /\ line_i' = line_i + 1
    /\ UNCHANGED <<pc, error, current_entry>>
    /\ ParserFrame

\* parse_lrcx, end of file: return entries
LrcxEnd ==
    /\ pc = "parse_lrcx"
    /\ line_i >= Len(input_lines)
    /\ pc' = "parsed"
    /\ UNCHANGED <<error, entries, line_i, current_entry, lrcx_index>>
    /\ ParserFrame

FileNext ==
    \/ ProcessFile
    \/ ProcessMediaFile
    \/ SrtBlankLine
    \/ SrtIndexLine
    \/ SrtTimingLine
    \/ SrtTextLines
    \/ SrtSkipLine
    \/ SrtEnd
    \/ LrcxLine
    \/ LrcxEnd

\* process_file up to the return of the parser
FileSpec == FileInit /\ [][FileNext]_vars

\* ------------------------------------------------- the writers on their own
\* translated texts: empty, plain, numbered with final punctuation
TargetTexts == { <<>>, <<"y">>, <<"3", ".", " ", "z", "!">> }

\* entries handed to a writer: the index need not be the position, the start
\* time need not be canonical
WriterEntries ==
    { [SubtitleEntry(idx, st, Time2, src) EXCEPT !.target_text = tgt] :
        idx \in {1, 7}, st \in {Time1, <<"x">>}, src \in SourceTexts, tgt \in TargetTexts }

\* the documents handed to a writer
WriterDocuments == UNION { [1..n -> WriterEntries] : n \in 0..MaxEntries }

WriterInit ==
    /\ pc = "save"
    /\ error = "none"
    /\ entries \in WriterDocuments
    /\ chineseOnly \in BOOLEAN
    /\ output_file = NoFile
    /\ file_type = "subtitle"
    /\ mode = "translate"
    /\ input_lines = <<>>
    /\ line_i = 0
    /\ current_entry = None
    /\ lrcx_index = FirstIndex
    /\ NoSideState
    /\ NoTranslation

\* what a writer leaves alone
WriterFrame ==
    /\ UNCHANGED <<entries, file_type, mode, input_lines, line_i, current_entry, lrcx_index,
                   chineseOnly>>
    /\ UNCHANGED side_vars
    /\ UNCHANGED translate_vars

\* save_srt(entries, output_path, chinese_only)
SaveSrt ==
    /\ pc = "save"
    /\ IF NoEntries(entries)
       THEN /\ pc' = "error"
            /\ error' = "ValueError"
            /\ UNCHANGED output_file
       ELSE /\ output_file' = [exists |-> TRUE, lines |-> save_srt(entries, chineseOnly)]
            /\ pc' = "saved_srt"
            /\ UNCHANGED error
    /\ WriterFrame

\* save_lrcx(entries, output_path, chinese_only)
SaveLrcx ==
    /\ pc = "save"
    /\ IF NoEntries(entries)
       THEN /\ pc' = "error"
            /\ error' = "ValueError"
            /\ UNCHANGED output_file
       ELSE /\ output_file' = [exists |-> TRUE, lines |-> save_lrcx(entries, chineseOnly)]
            /\ pc' = "saved_lrcx"
            /\ UNCHANGED error
    /\ WriterFrame

WriterNext ==
    \/ SaveSrt
    \/ SaveLrcx

\* one call of a writer on a document
WriterSpec == WriterInit /\ [][WriterNext]_vars

\* ------------------------------------------------------------- properties
\* gateway calls made by the latest make_request, the pending one included
CallsOfRequest == Len(results) + (IF pc = "call" THEN 1 ELSE 0)

\* the latest make_request has ended (returned or raised)
RequestEnded == requests # <<>> /\ Current.outcome # "pending"

\* C1: for max_retries >= 1, one make_request calls the gateway at most
\* max_retries times; a successful call is the last call of its request, ends
\* the request with outcome ok and no error, and the value returned is the
\* stripped content of that reply.
C1_RetryBound ==
    config.max_retries >= 1 =>
        /\ CallsOfRequest <= config.max_retries
        /\ \A k \in 1..Len(results) : results[k] = "ok" => k = Len(results)
        /\ (results # <<>> /\ results[Len(results)] = "ok") =>
              /\ pc \notin {"call", "sleep"}
              /\ error # "TranslationError"
              /\ Current.outcome = "ok"
              /\ Current.returned = Strip(Current.reply)
        /\ (RequestEnded /\ Current.outcome = "ok") =>
              (results # <<>> /\ results[Len(results)] = "ok")

\* C1 witness: max_retries = 3, two failed calls, then a success on the third
C1_Witness ==
    /\ config.max_retries = 3
    /\ Len(results) = 3
    /\ results[1] # "ok" /\ results[2] # "ok" /\ results[3] = "ok"
    /\ Current.outcome = "ok"
    /\ Current.returned # <<>>
    /\ error = "none"

\* C2: the wait after the k-th failed attempt (k < max_retries) is
\* retry_delay * 2^(k-1); one wait per failed attempt that is followed by
\* another attempt, none after a success or after the final failure.
C2_BackoffDelays ==
    config.max_retries >= 1 =>
        /\ \A k \in 1..Len(delays) :
              /\ k < config.max_retries
              /\ delays[k] = config.retry_delay * 2^(k - 1)
              /\ results[k] # "ok"
        /\ pc = "sleep" => (Len(delays) = Len(results) /\ delay = delays[Len(delays)])
        /\ pc = "call" => Len(delays) = Len(results)
        /\ (pc \in {"loop", "error"} /\ results # <<>>) => Len(delays) = Len(results) - 1

\* C2 witness: third attempt pending after waits of retry_delay and 2 * retry_delay
C2_Witness ==
    /\ pc = "call"
    /\ attempt = 2
    /\ config.retry_delay = 1
    /\ delays = <<1, 2>>

\* C3: a failure of the fatal class on the first attempt of a request aborts
\* make_request at once: that call is the only call of the request and no
\* backoff wait is taken.
C3_FatalAbortsImmediately ==
    (results # <<>> /\ results[1] = "fatal") =>
        /\ Len(results) = 1
        /\ delays = <<>>
        /\ pc \notin {"call", "sleep"}
        /\ Current.outcome = "failed"

\* C4: a fatal gateway failure during translate_subtitles aborts the whole
\* translation step with the error propagated (no fallback, nothing dispatched
\* afterwards), and only a fatal failure makes translate_subtitles abort.
C4_FatalPropagates ==
    /\ (\E k \in 1..Len(results) : results[k] = "fatal") =>
          (pc = "error" /\ error = "TranslationError")
    /\ (config.max_retries >= 1 /\ pc = "error" /\ error = "TranslationError") =>
          (\E k \in 1..Len(results) : results[k] = "fatal")

\* C5: single mode, an entry whose gateway calls fail transiently on all
\* max_retries attempts gets target_text "" and translation goes on with the
\* next entry; translate_subtitles does not raise.
C5_SingleFailureContinues ==
    ( /\ translation_mode = "single"
      /\ config.max_retries >= 1
      /\ RequestEnded
      /\ Current.outcome = "failed"
      /\ \A k \in 1..Len(results) : results[k] = "transient" ) =>
        /\ error # "TranslationError"
        /\ pc # "error"
        /\ entries[Current.positions[1]].target_text = <<>>
        /\ i >= Current.positions[1]

\* offset of the window the requests belong to: the running one while a
\* request is pending, the one just written once the loop position has moved
WindowOffset == IF pc \in {"call", "sleep"} THEN i ELSE i - batch_size

\* document positions of the window at offset w
WindowAt(w) == {p \in 1..Len(entries) : w < p /\ p <= w + batch_size}

\* is the normalized source text of the entry at position p empty
IsEmpty(p) == clean_text(entries[p].source_text) = <<>>

\* is the entry at position p kept for translation: its normalized source
\* text has a non-blank character
IsKept(p) == \E k \in 1..Len(clean_text(entries[p].source_text)) :
                clean_text(entries[p].source_text)[k] \notin Whitespace

\* the kept positions of the window at offset w, in document order
KeptAt(w) ==
    LET ks == {p \in WindowAt(w) : IsKept(p)}
    IN  [k \in 1..Cardinality(ks) |->
            CHOOSE p \in ks : Cardinality({q \in ks : q < p}) = k - 1]

\* what the fallback keeps for a per-line request
FallbackValue(req) == IF req.outcome = "ok" THEN req.returned ELSE <<>>

\* C6: in batch mode, once the batch request of a window has failed, the
\* kept texts of the window are sent one by one in window order through
\* the single prompt; a failed one yields "" and the following ones are
\* still sent; the values land at the original positions of their texts and
\* translate_batch returns normally.
C6_BatchFallback ==
    ( /\ translation_mode = "batch"
      /\ pc \in {"call", "sleep", "loop"}
      /\ requests # <<>>
      /\ requests[1].prompt = "batch"
      /\ requests[1].outcome = "failed" ) =>
        LET w == WindowOffset
            kept == KeptAt(w)
        IN  /\ Len(requests) <= 1 + Len(kept)
            /\ \A k \in 2..Len(requests) :
                  /\ requests[k].prompt = "single"
                  /\ requests[k].positions = <<kept[k - 1]>>
                  /\ requests[k].content = <<clean_text(entries[kept[k - 1]].source_text)>>
            /\ \A k \in 2..(Len(requests) - 1) : requests[k].outcome # "pending"
            /\ pc \in {"call", "sleep"} =>
                  /\ Len(requests) >= 2
                  /\ Len(fallback) = Len(requests) - 2
                  /\ \A k \in 1..Len(fallback) : fallback[k] = FallbackValue(requests[k + 1])
            /\ pc = "loop" =>
                  /\ Len(requests) = 1 + Len(kept)
                  /\ error = "none"
                  /\ Len(translations) = Cardinality(WindowAt(w))
                  /\ \A k \in 1..Len(kept) :
                        /\ translations[kept[k] - w] = FallbackValue(requests[k + 1])
                        /\ entries[kept[k]].target_text = Strip(FallbackValue(requests[k + 1]))
                  /\ \A p \in WindowAt(w) :
                        ~IsKept(p) => (translations[p - w] = <<>> /\ entries[p].target_text = <<>>)

\* C6, second part: in batch mode no gateway failure ends translate_subtitles
C6_BatchNeverAborts ==
    translation_mode = "batch" => (pc # "error" \/ error # "TranslationError")

C6_Fallback == C6_BatchFallback /\ C6_BatchNeverAborts

\* C6 witness: a window with two kept texts whose batch request failed, the
\* first per-line request failed too and the second one was answered
C6_Witness ==
    /\ translation_mode = "batch"
    /\ pc = "loop"
    /\ Len(requests) = 3
    /\ requests[1].prompt = "batch" /\ requests[1].outcome = "failed"
    /\ requests[2].outcome = "failed"
    /\ requests[3].outcome = "ok" /\ requests[3].returned # <<>>
    /\ entries[requests[2].positions[1]].target_text = <<>>
    /\ entries[requests[3].positions[1]].target_text # <<>>

\* C7: a batch reply that parses into m lines for n kept texts: the list
\* returned has one element per text of the window, the k-th parsed line
\* (k <= min(m, n)) is at the original position of the k-th kept text, the
\* kept positions after the m-th hold "" and the lines after the n-th are
\* dropped.
C7_Alignment ==
    ( /\ translation_mode = "batch"
      /\ pc = "loop"
      /\ Len(requests) = 1
      /\ requests[1].prompt = "batch"
      /\ requests[1].outcome = "ok" ) =>
        LET w == WindowOffset
            kept == KeptAt(w)
            parsed == ParseResponse(Strip(requests[1].returned))
        IN  /\ Len(translations) = Cardinality(WindowAt(w))
            /\ \A k \in 1..Len(kept) :
                  translations[kept[k] - w] = (IF k <= Len(parsed) THEN parsed[k] ELSE <<>>)
            /\ \A p \in WindowAt(w) : ~IsKept(p) => translations[p - w] = <<>>

\* C7 witness: two texts in the window, the first filtered out, one kept,
\* two lines parsed from the reply: the first line is at the position of the
\* kept text, the second line is dropped
C7_Witness ==
    /\ translation_mode = "batch"
    /\ pc = "loop"
    /\ Len(requests) = 1
    /\ requests[1].outcome = "ok"
    /\ Len(translations) = 2
    /\ Len(KeptAt(WindowOffset)) = 1
    /\ Len(ParseResponse(Strip(requests[1].returned))) = 2
    /\ translations[1] = <<>>
    /\ translations[2] = ParseResponse(Strip(requests[1].returned))[1]
    /\ translations[2] # <<>>

\* C8: an entry whose normalized source text is empty is in no gateway
\* request of either mode and keeps target_text "" whatever is replied for
\* the others; dispatching it raises nothing; a window of empty texts only
\* issues no request.
C8_EmptyNeverSent ==
    /\ \A p \in 1..Len(entries) :
          IsEmpty(p) =>
              /\ p \notin sent
              /\ entries[p].target_text = <<>>
              /\ \A k \in 1..Len(requests) : p \notin SeqRange(requests[k].positions)
    /\ \A k \in 1..Len(requests) :
          /\ requests[k].positions # <<>>
          /\ Len(requests[k].content) = Len(requests[k].positions)
          /\ \A j \in 1..Len(requests[k].positions) : ~IsEmpty(requests[k].positions[j])
    /\ (pc \in {"call", "sleep"} /\ translation_mode # "batch") => ~IsEmpty(i + 1)
    /\ (pc = "error" /\ error = "TranslationError") => ~IsEmpty(i + 1)
    /\ (pc \in {"call", "sleep"} /\ translation_mode = "batch") =>
          (\E p \in WindowAt(i) : ~IsEmpty(p))

\* C8 witness: batch mode, a window holding an empty text and a kept one,
\* answered by the gateway: only the kept one was sent and translated
C8_Witness ==
    /\ translation_mode = "batch"
    /\ pc = "loop"
    /\ Len(requests) = 1 /\ requests[1].outcome = "ok"
    /\ \E p \in WindowAt(WindowOffset), q \in WindowAt(WindowOffset) :
          /\ IsEmpty(p) /\ p < q
          /\ entries[p].target_text = <<>>
          /\ entries[q].target_text # <<>>
          /\ p \notin sent /\ q \in sent

\* C9: the writer runs only after translate_subtitles has returned for the
\* whole document, translation only after parsing; a run whose translation
\* step raised, or that was cancelled, has no output file.
C9_StageOrder ==
    /\ pc = "parse" =>
          (entries = <<>> /\ requests = <<>> /\ sent = {} /\ calls = 0 /\ i = 0)
    /\ pc \in {"save", "done"} =>
          /\ i >= Len(entries)
          /\ error = "none"
          /\ HasAttempt(config.max_retries) => \A p \in 1..Len(entries) : IsKept(p) => p \in sent
    /\ output_file.exists => pc = "done"
    /\ pc # "done" => output_file = NoFile
    /\ (pc = "cancelled" \/ error \in {"TranslationError", "Cancelled"}) => ~output_file.exists

\* C9 witness: the file is written, after every entry of a document of two
\* or more entries went through translation
C9_Witness ==
    /\ pc = "done"
    /\ output_file.exists
    /\ Len(entries) >= 2
    /\ i >= Len(entries)
    /\ \A p \in 1..Len(entries) : IsKept(p) => entries[p].target_text # <<>>
    /\ \E p \in 1..Len(entries) : IsKept(p)

\* C10: a document of zero entries never gets an output file: the writer
\* raises before the file is opened, and on the pipeline path the run ends in
\* that error without a gateway request.
C10_EmptyDocument ==
    /\ output_file.exists => entries # <<>>
    /\ (pc # "parse" /\ entries = <<>>) =>
          /\ output_file = NoFile
          /\ sent = {} /\ calls = 0 /\ requests = <<>>
          /\ pc \in {"loop", "save", "error", "cancelled"}
          /\ pc = "error" => error = "ValueError"
    /\ (pc = "error" /\ error = "ValueError") => entries = <<>>

\* C10 witness: the run over an empty document has ended in the writer's error
C10_Witness ==
    /\ pc = "error"
    /\ error = "ValueError"
    /\ entries = <<>>
    /\ ~output_file.exists
    /\ calls = 0

\* C11: process_file given a path whose suffix is in none of the supported
\* classes ends in an error before anything is processed: the run is either
\* not started or failed, no line of the file was parsed, no entry exists,
\* no media step ran, no gateway request was made and no file was written.
C11_UnsupportedFormat ==
    file_type = "other" =>
        /\ pc \in {"process_file", "error"}
        /\ line_i = 0
        /\ entries = <<>>
        /\ requests = <<>> /\ calls = 0
        /\ ~output_file.exists

\* C12: the file save_srt wrote has one block per entry of the document, in
\* document order; the k-th block starts with the line k whatever the
\* entry's index field is, then the line start --> end with both times
\* unchanged, the target line (empty for an empty target_text), the source
\* line unless chinese_only, and a blank line.
C12_SrtBlocks ==
    pc = "saved_srt" =>
        LET w == IF chineseOnly THEN 4 ELSE 5
            out == output_file.lines
        IN  /\ output_file.exists
            /\ Len(out) = w * Len(entries)
            /\ \A k \in 1..Len(entries) :
                  LET b == w * (k - 1)
                  IN  /\ out[b + 1] = DecimalDigits(k)
                      /\ out[b + 2] = entries[k].start_time \o Arrow \o entries[k].end_time
                      /\ out[b + 3] = entries[k].target_text
                      /\ ~chineseOnly => out[b + 4] = entries[k].source_text
                      /\ out[b + w] = <<>>

\* C12 witness: save_srt wrote a document of two entries whose index fields
\* are not their positions, the second one with an empty target_text
C12_Witness ==
    /\ pc = "saved_srt"
    /\ ~chineseOnly
    /\ Len(entries) = 2
    /\ entries[1].index = 7 /\ entries[2].index = 1
    /\ entries[1].target_text # <<>>
    /\ entries[2].target_text = <<>>
    /\ Len(output_file.lines) = 10

\* C13: the file save_lrcx wrote has no line for an entry whose source text
\* is empty after clean_text: after the two header lines there are one line
\* (chinese_only) or two lines for each entry whose normalized source text is
\* not empty, and nothing else.
C13_LrcxOmitsEmptySource ==
    pc = "saved_lrcx" =>
        Len(output_file.lines) =
            2 + (IF chineseOnly THEN 1 ELSE 2)
                * Cardinality({k \in 1..Len(entries) : clean_text(entries[k].source_text) # <<>>})

\* C14: with chinese_only no line a writer wrote carries the source text of
\* an entry: no line contains the normalized source text of an entry whose
\* normalized source text has a non-blank character.
C14_ChineseOnlyNoSource ==
    (pc \in {"saved_srt", "saved_lrcx"} /\ chineseOnly) =>
        \A j \in 1..Len(output_file.lines), k \in 1..Len(entries) :
            Strip(clean_text(entries[k].source_text)) # <<>> =>
                ~Contains(output_file.lines[j], clean_text(entries[k].source_text))

\* the positions of the entries save_lrcx writes, in document order
LrcxEmitted ==
    LET ks == {p \in 1..Len(entries) : Strip(entries[p].source_text) # <<>>}
    IN  [k \in 1..Cardinality(ks) |->
            CHOOSE p \in ks : Cardinality({q \in ks : q < p}) = k - 1]

FromSrt == pc \in {"parse_srt", "parsed"} /\ file_type # "lyric"

\* the document is the one parse_lrcx builds or has returned
FromLrcx == pc \in {"parse_lrcx", "parsed"} /\ file_type = "lyric"

\* C16: parse_srt puts an open entry into the document only if it has
\* non-empty timing and non-empty text: every entry of the document has
\* non-empty start_time, end_time and source_text.
C16_SrtEmissionRule ==
    FromSrt =>
        \A k \in 1..Len(entries) :
            /\ entries[k].start_time # <<>>
            /\ entries[k].end_time # <<>>
            /\ entries[k].source_text # <<>>

\* C17: the index values of the document a parser returned are strictly
\* increasing in document order (hence pairwise distinct).
C17_IndexIncreasing ==
    pc = "parsed" =>
        \A j \in 1..Len(entries), k \in 1..Len(entries) :
            j < k => entries[j].index < entries[k].index

\* C18: start_time and end_time of every entry of the document a parser
\* returned are empty or match HH:MM:SS,mmm.
C18_CanonicalTimes ==
    pc = "parsed" =>
        \A k \in 1..Len(entries) :
            /\ entries[k].start_time # <<>> => TIME_PATTERN(entries[k].start_time)
            /\ entries[k].end_time # <<>> => TIME_PATTERN(entries[k].end_time)

\* C19: a malformed line is skipped: no parser raises, whatever the lines of
\* the file are.
C19_BadLineSkipped ==
    ~(pc = "error" /\ error = "ValueError" /\ line_i > 0)

\* the line is a version or offset tag or holds a translation tag
IsMetadataLine(line) ==
    \/ StartsWith(line, <<"[", "v", "e", "r", ":">>)
    \/ StartsWith(line, <<"[", "o", "f", "f", "s", "e", "t", ":">>)
    \/ Contains(line, <<"[", "t", "r", ":">>)

\* C20: in the document parse_lrcx builds the k-th entry has index k, a
\* non-empty source_text and end_time = start_time; the entries are no more
\* than the lines read that are not version, offset or translation lines,
\* and no source_text holds a translation tag.
C20_LrcxEntries ==
    FromLrcx =>
        /\ \A k \in 1..Len(entries) :
              /\ entries[k].index = k
              /\ entries[k].source_text # <<>>
              /\ entries[k].end_time = entries[k].start_time
              /\ ~Contains(entries[k].source_text, <<"[", "t", "r", ":">>)
        /\ Len(entries) <= Cardinality({k \in 1..line_i : ~IsMetadataLine(Strip(input_lines[k]))})
        /\ lrcx_index = Len(entries) + 1

\* C20 witness: parse_lrcx returned two entries from a file of three lines
\* whose first line is a version, offset or translation line
C20_Witness ==
    /\ pc = "parsed"
    /\ file_type = "lyric"
    /\ Len(input_lines) = 3
    /\ IsMetadataLine(input_lines[1])
    /\ Len(entries) = 2
    /\ entries[2].index = 2

\* ---------------------------------------------------------------------------
\* format_time and parse_time on their own
\* ---------------------------------------------------------------------------

\* largest hours field of the times converted
MaxHours == 1

\* the minutes, seconds and milliseconds fields of the times converted
MinuteFields == {0, 1, 59}
SecondFields == {0, 5, 59}
MillisecondFields == {0, 340, 345}

\* HH:MM:SS,mmm, the strings TIME_PATTERN matches
CanonicalTime(h, m, s, ms) ==
    TwoDigits(h) \o <<":">> \o TwoDigits(m) \o <<":">> \o TwoDigits(s)
    \o <<",">> \o ThreeDigits(ms)

CanonicalTimes ==
    {CanonicalTime(h, m, s, ms) : h \in 0..MaxHours, m \in MinuteFields,
                                  s \in SecondFields, ms \in MillisecondFields}

CodecInit ==
    /\ pc = "format_time"
    /\ error = "none"
    /\ entries = <<>>
    /\ output_file = NoFile
    /\ \E t \in CanonicalTimes : codec = [NoCodec EXCEPT !.canonical = t]
    /\ runs = <<>>
    /\ api_instance = None
    /\ file_type = "subtitle"
    /\ mode = "translate"
    /\ input_lines = <<>>
    /\ line_i = 0
    /\ current_entry = None
    /\ lrcx_index = FirstIndex
    /\ chineseOnly = FALSE
    /\ NoTranslation

\* what the time conversions leave alone
CodecFrame ==
    /\ UNCHANGED <<error, entries, output_file, runs, api_instance, file_type, mode,
                   input_lines, line_i, current_entry, lrcx_index, chineseOnly>>
    /\ UNCHANGED translate_vars

\* format_time(t, to_lrc=True)
ToLyricTag ==
    /\ pc = "format_time"
    /\ codec' = [codec EXCEPT !.tag = format_time(codec.canonical)]
    /\ pc' = "parse_time"
    /\ CodecFrame

\* parse_time of the tag without its brackets, from_lrc=True
ToCanonical ==
    /\ pc = "parse_time"
    /\ codec' = [codec EXCEPT !.back = parse_time(Slice(codec.tag, 1, -1))]
    /\ pc' = "codec_done"
    /\ CodecFrame

CodecNext == ToLyricTag \/ ToCanonical

CodecSpec == CodecInit /\ [][CodecNext]_vars

\* C21 as stated: for every canonical time t, format_time followed by parse_time
\* gives a canonical time with the minutes and seconds of t and the first two
\* millisecond digits of t followed by 0
C21_AnyTimeRoundTrip ==
    pc = "codec_done" =>
        /\ TIME_PATTERN(codec.back)
        /\ SubSeq(codec.back, 4, 8) = SubSeq(codec.canonical, 4, 8)
        /\ SubSeq(codec.back, 10, 12) = SubSeq(codec.canonical, 10, 11) \o <<"0">>

\* C21 amended: for every canonical time t whose hours field is 00, format_time
\* followed by parse_time gives the canonical time with hours 00, the minutes
\* and seconds of t, and the first two millisecond digits of t followed by 0
C21_ZeroHoursRoundTrip ==
    (pc = "codec_done" /\ SubSeq(codec.canonical, 1, 2) = <<"0", "0">>) =>
        /\ TIME_PATTERN(codec.back)
        /\ codec.back = SubSeq(codec.canonical, 1, 11) \o <<"0">>

\* 00:01:05,345 has come back as 00:01:05,340
C21_Witness ==
    /\ pc = "codec_done"
    /\ codec.canonical = CanonicalTime(0, 1, 5, 345)
    /\ codec.tag = <<"[", "0", "1", ":", "0", "5", ".", "3", "4", "]">>
    /\ codec.back = CanonicalTime(0, 1, 5, 340)

\* C24: the text translate_subtitles sends to the gateway is the source text
\* without its leading enumeration prefix and surrounding whitespace, its
\* sentence punctuation kept
C24_GatewayTextKeepsPunctuation ==
    (pc = "call" /\ Current.prompt = "single") =>
        Current.content =
            <<Strip(RemoveNumberPrefix(Strip(entries[Current.positions[1]].source_text)))>>

\* translate_subtitles is running
Translating == pc \in {"loop", "call", "sleep"}

\* the positions a step of translate_subtitles assigns: those the loop passes
Assigned == {k \in 1..Len(entries) : i < k /\ k <= i'}

C25_Step ==
    Translating =>
        /\ Len(entries') = Len(entries)
        /\ i' >= i
        /\ \A k \in 1..Len(entries) :
              /\ entries'[k].index = entries[k].index
              /\ entries'[k].start_time = entries[k].start_time
              /\ entries'[k].end_time = entries[k].end_time
              /\ entries'[k].source_text = entries[k].source_text
              /\ (entries'[k].target_text # entries[k].target_text => k \in Assigned)
              /\ (k > i => entries[k].target_text = <<>>)
        /\ (translation_mode = "batch" /\ i' > i =>
               Len(translations') = Cardinality(Assigned))
        /\ (pc' = "save" => i >= Len(entries))

\* C25: translate_subtitles keeps the entries, their order and their index,
\* start_time, end_time and source_text; a step assigns target_text only at
\* the positions the loop passes with that step, which it never passes again,
\* and it returns only when the loop has passed every position
C25_Frame == [][C25_Step]_vars

\* a document of two entries has been translated by two windows of one entry
C25_Witness ==
    /\ pc = "save"
    /\ translation_mode = "batch"
    /\ batch_size = 1
    /\ Len(entries) = 2
    /\ entries[1].target_text = <<"x">>
    /\ entries[2].target_text = <<"y">>

\* the positions of the window the batch loop is at
Window == {k \in 1..Len(entries) : i < k /\ k <= i + batch_size}

\* C26: in batch mode the windows start at multiples of batch_size; while a
\* gateway request is pending or backing off, it and every other request
\* issued since the previous write are for positions of the window the loop
\* is at, all but the latest have finished, and no entry of this or a later
\* window has been written; a step writes only entries of the window the
\* loop is at and then moves on to the next window
C26_WindowsSequential ==
    /\ [](translation_mode = "batch" =>
            /\ i % batch_size = 0
            /\ (pc \in {"call", "sleep"} =>
                   /\ \A r \in 1..Len(requests) :
                         /\ SeqRange(requests[r].positions) \subseteq Window
                         /\ (r < Len(requests) => requests[r].outcome # "pending")
                   /\ \A k \in 1..Len(entries) : k > i => entries[k].target_text = <<>>))
    /\ [][(translation_mode = "batch" /\ pc \in {"loop", "call", "sleep"}) =>
            /\ \A k \in 1..Len(entries) : entries'[k] # entries[k] => k \in Window
            /\ (entries' # entries => i' = i + batch_size)
            /\ (i' # i => i' = i + batch_size /\ pc' = "loop")]_vars

\* the second window of a document has a request pending after the first
\* window was written
C26_Witness ==
    /\ translation_mode = "batch"
    /\ batch_size = 1
    /\ pc = "call"
    /\ i = 1
    /\ Len(entries) = 2
    /\ entries[1].target_text = <<"x">>
    /\ Current.positions = <<2>>

\* C27: when the reply to a batch request has one line per sent text, every
\* kept text gets its own reply line: a blank line leaves exactly its own
\* entry without translation
C27_BlankLineKeepsAlignment ==
    (/\ translation_mode = "batch"
     /\ pc = "loop"
     /\ Len(requests) = 1
     /\ requests[1].prompt = "batch"
     /\ requests[1].outcome = "ok"
     /\ Len(SplitLines(requests[1].reply)) = Len(requests[1].positions)) =>
        \A k \in 1..Len(requests[1].positions) :
           LET line == Strip(SplitLines(requests[1].reply)[k])
           IN  entries[requests[1].positions[k]].target_text =
                  IF line = <<>> THEN <<>> ELSE Strip(ParseReplyLine(line))

\* line j of the input is the index line of a complete block: an all-digit
\* line, a line with two canonical times, one or more text lines, and then a
\* blank line, an all-digit line or the end of the input
CompleteBlockAt(j) ==
    /\ j + 2 <= Len(input_lines)
    /\ isdigit(StrippedLines[j])
    /\ LET parts == SplitOnSeq(StrippedLines[j + 1], Arrow)
       IN  /\ Len(parts) = 2
           /\ TIME_PATTERN(Strip(parts[1]))
           /\ TIME_PATTERN(Strip(parts[2]))
    /\ TextLines(j + 1) # <<>>
    /\ LET after == j + 2 + Len(TextLines(j + 1))
       IN  \/ after > Len(input_lines)
           \/ StrippedLines[after] = <<>>
           \/ isdigit(StrippedLines[after])

\* C28: every complete block of the input is an entry of the document
\* parse_srt returns, with the block's index, times and text
C28_NoCompleteEntryLost ==
    (pc = "parsed" /\ file_type # "lyric") =>
        \A j \in 1..Len(input_lines) :
            CompleteBlockAt(j) =>
                \E k \in 1..Len(entries) :
                    LET parts == SplitOnSeq(StrippedLines[j + 1], Arrow)
                    IN  /\ entries[k].index = ParseInt(StrippedLines[j])
                        /\ entries[k].start_time = Strip(parts[1])
                        /\ entries[k].end_time = Strip(parts[2])
                        /\ entries[k].source_text = JoinLines(TextLines(j + 1))

\* the gateway calls one entry (single mode) or one window with n kept texts
\* (batch mode) may take
CallBound ==
    IF translation_mode = "batch"
    THEN config.max_retries * (1 + Len(ValidIndices(WindowTexts)))
    ELSE config.max_retries

\* the steps translate_subtitles has taken for the entry or window it is at:
\* two for every attempt of every request issued for it
StepsTaken ==
    IF pc = "loop" THEN 0
    ELSE (Len(requests) - 1) * 2 * (config.max_retries + 1)
         + 2 * attempt + (IF pc = "sleep" THEN 1 ELSE 0) + 1

\* more steps than any entry or window takes
StepsPerItem == 2 * (config.max_retries + 1) * (batch_size + 1) + 2

\* a natural number that every step of translate_subtitles makes smaller
Rank ==
    (IF i < Len(entries) THEN (Len(entries) - i) * StepsPerItem ELSE 0) - StepsTaken

\* C29: translate_subtitles terminates and its gateway calls are bounded:
\* every step it takes either leaves it or makes the natural number Rank
\* smaller, whatever the gateway answers; the calls made for an entry never
\* exceed max_retries, those for a window with n kept texts never exceed
\* max_retries * (1 + n); the loop never goes back, and a request is only
\* ever pending for positions the loop has not written
C29_TerminatesWithBoundedCalls ==
    /\ [](Translating =>
            /\ Rank >= 0
            /\ (pc \in {"call", "sleep"} =>
                   /\ calls <= CallBound
                   /\ \A k \in SeqRange(Current.positions) : k > i))
    /\ [][Translating =>
            /\ i' >= i
            /\ (pc' \in {"loop", "call", "sleep"} => Rank' < Rank)]_vars

\* a window of two kept texts has been written after the batch request and
\* both fallback requests used max_retries = 2 gateway calls each
C29_Witness ==
    /\ translation_mode = "batch"
    /\ config.max_retries = 2
    /\ pc = "loop"
    /\ i = 2
    /\ Len(requests) = 3
    /\ calls = 6

\* C30: a make_request invocation that has finished has called the gateway at
\* least once: it ends with the reply of a call or with the TranslationError
\* raised for the failure of its last call, never without any call
C30_OutcomeAfterCall ==
    (requests # <<>> /\ requests[1].outcome # "pending") => calls >= 1

\* ---------------------------------------------------------------------------
\* parse_srt, translate_subtitles with a gateway that returns the text it is
\* sent, save_srt
\* ---------------------------------------------------------------------------

LaterTiming == Time2 \o Arrow \o Time2

\* a block whose text has an enumeration prefix and sentence punctuation, with
\* no blank line after it
NumberedBlock == << <<"2">>, GoodTiming, <<"2", ".", " ", "b", "!">> >>

\* a block with two text lines
TwoLineBlock == << <<"3">>, LaterTiming, <<"y", "o">>, TextLine, <<>> >>

RoundTripPieces ==
    { WellFormed(1), NumberedBlock, TwoLineBlock, << <<>> >>, <<TextLine>> }

\* the SRT input files read, translated and written back
RoundTripFiles ==
    UNION { { Flatten(ps) : ps \in [1..n -> RoundTripPieces] } : n \in 0..MaxBlocks }

RoundTripInit ==
    /\ pc = "parse_srt"
    /\ error = "none"
    /\ file_type = "subtitle"
    /\ mode = "translate"
    /\ input_lines \in RoundTripFiles
    /\ line_i = 0
    /\ current_entry = None
    /\ lrcx_index = FirstIndex
    /\ chineseOnly = FALSE
    /\ NoSideState
    /\ entries = <<>>
    /\ output_file = NoFile
    /\ NoTranslation

\* the reply of a gateway that echoes the user message, as make_request
\* returns it: response.choices[0].message.content.strip()
EchoReply(text) == Strip(text)

\* single mode with the echoing gateway, one entry: clean_text, translate_single
\* (translate_text returns "" for blank text, else result.strip()), and the
\* assignment of trans.strip()
TranslateEcho ==
    /\ pc = "parsed"
    /\ i < Len(entries)
    /\ LET clean_source == clean_text(entries[i + 1].source_text)
           trans == IF Strip(clean_source) = <<>> THEN <<>>
                    ELSE Strip(EchoReply(clean_source))
       IN  entries' = [entries EXCEPT ![i + 1].target_text = Strip(trans)]
    /\ i' = i + 1
    /\ UNCHANGED <<pc, error, output_file, config, translation_mode, batch_size, requests,
                   results, delays, attempt, delay, fallback, translations, sent, calls>>
    /\ UNCHANGED file_vars

\* translate_subtitles returns the entries; save_subtitle is called next
TranslateReturn ==
    /\ pc = "parsed"
    /\ i >= Len(entries)
    /\ pc' = "save"
    /\ UNCHANGED <<error, entries, output_file>>
    /\ UNCHANGED translate_vars
    /\ UNCHANGED file_vars

RoundTripNext ==
    \/ SrtBlankLine
    \/ SrtIndexLine
    \/ SrtTimingLine
    \/ SrtTextLines
    \/ SrtSkipLine
    \/ SrtEnd
    \/ TranslateEcho
    \/ TranslateReturn
    \/ SaveSrt

RoundTripSpec == RoundTripInit /\ [][RoundTripNext]_vars

\* a line of text: not blank, not all digits, without the timing separator
IsTextLine(l) == Strip(l) # <<>> /\ ~isdigit(Strip(l)) /\ ~Contains(l, Arrow)

\* a line with two canonical times around the separator
IsTimingLine(l) ==
    LET parts == SplitOnSeq(Strip(l), Arrow)
    IN  Len(parts) = 2 /\ TIME_PATTERN(parts[1]) /\ TIME_PATTERN(parts[2])

\* how many text lines ls starts with
RECURSIVE TextRun(_)
TextRun(ls) == IF ls # <<>> /\ IsTextLine(ls[1]) THEN 1 + TextRun(Tail(ls)) ELSE 0

\* a well-formed SRT document: blocks of an all-digit line, a timing line and
\* one or more text lines, each block followed by a blank line or by the end
\* of the input; further blank lines anywhere between blocks
RECURSIVE WellFormedSrt(_)
WellFormedSrt(ls) ==
    IF ls = <<>> THEN TRUE
    ELSE IF Strip(ls[1]) = <<>> THEN WellFormedSrt(Tail(ls))
    ELSE /\ Len(ls) >= 3
         /\ isdigit(Strip(ls[1]))
         /\ IsTimingLine(ls[2])
         /\ LET n == TextRun(SubSeq(ls, 3, Len(ls)))
            IN  /\ n >= 1
                /\ \/ Len(ls) = 2 + n
                   \/ /\ Strip(ls[3 + n]) = <<>>
                      /\ WellFormedSrt(SubSeq(ls, 3 + n, Len(ls)))

\* the timing line and the text of every block of a well-formed document
RECURSIVE BlocksOf(_)
BlocksOf(ls) ==
    IF ls = <<>> THEN <<>>
    ELSE IF Strip(ls[1]) = <<>> THEN BlocksOf(Tail(ls))
    ELSE LET n == TextRun(SubSeq(ls, 3, Len(ls)))
         IN  <<[timing |-> Strip(ls[2]),
                text |-> JoinLines([k \in 1..n |-> Strip(ls[2 + k])])]>>
             \o BlocksOf(SubSeq(ls, 3 + n, Len(ls)))

\* C22: for a well-formed SRT document, parse_srt, translation by a gateway
\* that returns the text it is sent and save_srt with chinese_only false write
\* one block per block of the input, in the input's order: the running
\* number, the block's timing line, the target line, then the block's text,
\* then a blank line
C22_SrtRoundTrip ==
    (pc = "saved_srt" /\ WellFormedSrt(input_lines)) =>
        LET blocks == BlocksOf(input_lines)
            out == output_file.lines
        IN  /\ Len(out) = 5 * Len(blocks)
            /\ \A k \in 1..Len(blocks) :
                  LET b == 5 * (k - 1)
                  IN  /\ out[b + 1] = DecimalDigits(k)
                      /\ out[b + 2] = blocks[k].timing
                      /\ out[b + 3] = Strip(clean_text(blocks[k].text))
                      /\ out[b + 4] = blocks[k].text
                      /\ out[b + 5] = <<>>

\* a document of a two-line block and a numbered block has been written back
C22_Witness ==
    /\ pc = "saved_srt"
    /\ input_lines = TwoLineBlock \o NumberedBlock
    /\ output_file.lines =
          << <<"1">>, LaterTiming, <<"y", "o", "\n", "h", "i">>, <<"y", "o", "\n", "h", "i">>, <<>>,
             <<"2">>, GoodTiming, <<"b">>, <<"2", ".", " ", "b", "!">>, <<>> >>

\* ---------------------------------------------------------------------------
\* two calls of translate_subtitles in one event loop
\* ---------------------------------------------------------------------------
\* The variables of the pipeline describe the coroutine that is running;
\* runs.suspended holds the locals of the other one, runs.active says which of
\* the two is running and runs.documents keeps the two documents as given.

\* largest document of a concurrent run
MaxRunEntries == 2

\* largest max_retries of the concurrent runs
MaxRunRetries == 2

\* the source texts of the two documents
RunTexts(r) == IF r = 1 THEN { <<"2", ".", " ", "b", "!">> }
               ELSE { <<"c">> }

\* the first run has a document of MaxRunEntries entries, the second one of
\* any length up to that
RunDocuments(r) ==
    UNION { { [k \in 1..n |-> SubtitleEntry(k, EntryTime(k), EntryTime(k + 1), txt[k])]
              : txt \in [1..n -> RunTexts(r)] }
            : n \in (IF r = 1 THEN {MaxRunEntries} ELSE 1..MaxRunEntries) }

\* the locals of a call of translate_subtitles that has not started
NewRun(doc, m) ==
    [pc |-> "start", error |-> "none", translation_mode |-> m,
     batch_size |-> IF m = "batch" THEN MaxRunEntries ELSE DefaultBatchSize,
     entries |-> doc, i |-> 0, requests |-> <<>>, results |-> <<>>, delays |-> <<>>,
     attempt |-> 0, delay |-> 0, fallback |-> <<>>, translations |-> <<>>,
     sent |-> {}, calls |-> 0]

\* the locals of the running coroutine
Locals ==
    [pc |-> pc, error |-> error, translation_mode |-> translation_mode,
     batch_size |-> batch_size, entries |-> entries, i |-> i, requests |-> requests,
     results |-> results, delays |-> delays, attempt |-> attempt, delay |-> delay,
     fallback |-> fallback, translations |-> translations, sent |-> sent, calls |-> calls]

\* faulty variant: the list of fallback translations is shared by the coroutines
Resume_SharedFallback(l) ==
    /\ pc' = l.pc
    /\ error' = l.error
    /\ translation_mode' = l.translation_mode
    /\ batch_size' = l.batch_size
    /\ entries' = l.entries
    /\ i' = l.i
    /\ requests' = l.requests
    /\ results' = l.results
    /\ delays' = l.delays
    /\ attempt' = l.attempt
    /\ delay' = l.delay
    /\ fallback' = fallback
    /\ translations' = l.translations
    /\ sent' = l.sent
    /\ calls' = l.calls

\* the event loop resumes the coroutine whose locals are l
Resume(l) ==
    /\ pc' = l.pc
    /\ error' = l.error
    /\ translation_mode' = l.translation_mode
    /\ batch_size' = l.batch_size
    /\ entries' = l.entries
    /\ i' = l.i
    /\ requests' = l.requests
    /\ results' = l.results
    /\ delays' = l.delays
    /\ attempt' = l.attempt
    /\ delay' = l.delay
    /\ fallback' = l.fallback
    /\ translations' = l.translations
    /\ sent' = l.sent
    /\ calls' = l.calls

ConcurrentInit ==
    /\ config \in [max_retries : 1..MaxRunRetries, retry_delay : {1}]
    /\ api_instance = None
    /\ \E d1 \in RunDocuments(1), d2 \in RunDocuments(2), m1, m2 \in {"single", "batch"} :
          /\ runs = [active |-> 1, suspended |-> NewRun(d2, m2), documents |-> <<d1, d2>>]
          /\ LET l == NewRun(d1, m1)
             IN  /\ pc = l.pc
                 /\ error = l.error
                 /\ translation_mode = l.translation_mode
                 /\ batch_size = l.batch_size
                 /\ entries = l.entries
                 /\ i = l.i
                 /\ requests = l.requests
                 /\ results = l.results
                 /\ delays = l.delays
                 /\ attempt = l.attempt
                 /\ delay = l.delay
                 /\ fallback = l.fallback
                 /\ translations = l.translations
                 /\ sent = l.sent
                 /\ calls = l.calls
    /\ output_file = NoFile
    /\ codec = NoCodec
    /\ file_type = "subtitle"
    /\ mode = "translate"
    /\ input_lines = <<>>
    /\ line_i = 0
    /\ current_entry = None
    /\ lrcx_index = FirstIndex
    /\ chineseOnly = FALSE

\* the first APIClient.get_config() of a run: the class attribute is set if it
\* is None (there is no await between the test and the assignment)
StartRun ==
    /\ pc = "start"
    /\ api_instance' = IF api_instance = None THEN config ELSE api_instance
    /\ pc' = "loop"
    /\ UNCHANGED <<error, config, translation_mode, batch_size, entries, i, requests,
                   results, delays, attempt, delay, fallback, translations, sent, calls,
                   output_file, file_type, mode, input_lines, line_i, current_entry,
                   lrcx_index, chineseOnly, codec, runs>>

\* the pending call returns the user message it was sent
GatewayEcho ==
    /\ pc = "call"
    /\ LET reply == JoinLines(Current.content)
       IN  RequestSucceeded(Ended("ok", reply, Strip(reply), Append(results, "ok")),
                            Strip(reply))
    /\ UNCHANGED <<config, translation_mode, batch_size, output_file>>
    /\ UNCHANGED file_vars

\* the running coroutine is suspended in a gateway call or a backoff sleep, or
\* has ended; the event loop runs the other one, which has not started or
\* whose call or sleep is over
Switch ==
    /\ pc \in {"call", "sleep", "save", "error"}
    /\ runs.suspended.pc \in {"start", "call", "sleep"}
    /\ Resume(runs.suspended)
    /\ runs' = [runs EXCEPT !.active = 3 - @, !.suspended = Locals]
    /\ UNCHANGED <<config, api_instance, output_file, file_type, mode, input_lines,
                   line_i, current_entry, lrcx_index, chineseOnly, codec>>

ConcurrentNext ==
    \/ StartRun
    \/ DispatchEntry
    \/ DispatchWindow
    \/ GatewayEcho
    \/ GatewayFail
    \/ Wake
    \/ Return
    \/ Switch

ConcurrentSpec == ConcurrentInit /\ [][ConcurrentNext]_vars

\* the locals l of a run belong to the document doc: the entries are those of
\* doc in doc's order with index, times and source text unchanged, a written
\* target_text is the text of its own entry as the gateway was sent it, and
\* every request is built from texts of doc
OwnDocument(l, doc) ==
    /\ Len(l.entries) = Len(doc)
    /\ \A k \in 1..Len(doc) :
          /\ l.entries[k].index = doc[k].index
          /\ l.entries[k].start_time = doc[k].start_time
          /\ l.entries[k].end_time = doc[k].end_time
          /\ l.entries[k].source_text = doc[k].source_text
          /\ l.entries[k].target_text \in {<<>>, Strip(clean_text(doc[k].source_text))}
          /\ (k > l.i => l.entries[k].target_text = <<>>)
    /\ \A r \in 1..Len(l.requests) :
          /\ SeqRange(l.requests[r].positions) \subseteq 1..Len(doc)
          /\ l.requests[r].prompt = "single" =>
                l.requests[r].content =
                    <<clean_text(doc[l.requests[r].positions[1]].source_text)>>
          /\ l.requests[r].prompt = "batch" =>
                l.requests[r].content =
                    FormattedInput([k \in 1..Len(l.requests[r].positions) |->
                                       clean_text(doc[l.requests[r].positions[k]].source_text)])
          /\ l.requests[r].outcome = "ok" =>
                l.requests[r].reply = JoinLines(l.requests[r].content)
    /\ \A k \in 1..Len(l.fallback) :
          l.fallback[k] \in {<<>>} \cup {Strip(clean_text(doc[p].source_text)) : p \in 1..Len(doc)}
    /\ (l.pc = "save" /\ l.translation_mode = "single") =>
          \A k \in 1..Len(doc) : l.entries[k].target_text = Strip(clean_text(doc[k].source_text))

\* C23: two concurrent runs on distinct documents do not interfere: the running
\* and the suspended run each hold their own document and only requests,
\* replies and translations of its texts; a step of the running coroutine
\* leaves the suspended one as it is, and a switch hands the locals over
\* unchanged; the only state they share, APIClient._instance, is set once by
\* the first run and never changed
C23_NoInterference ==
    /\ [](/\ OwnDocument(Locals, runs.documents[runs.active])
          /\ OwnDocument(runs.suspended, runs.documents[3 - runs.active])
          /\ (pc # "start" => api_instance = config))
    /\ [][/\ runs'.documents = runs.documents
          /\ (api_instance # None => api_instance' = api_instance)
          /\ IF runs'.active = runs.active
             THEN runs'.suspended = runs.suspended
             ELSE runs'.suspended = Locals /\ Locals' = runs.suspended]_vars

\* the requests of the two runs are interleaved: the second run, in single
\* mode, has written its first entry and waits for the reply for its second,
\* while the first run, in batch mode, is suspended in the second request of
\* its fallback with the first fallback translation in hand
C23_Witness ==
    /\ runs.active = 2
    /\ translation_mode = "single"
    /\ pc = "call"
    /\ i = 1
    /\ entries[1].target_text = <<"c">>
    /\ Current.content = << <<"c">> >>
    /\ runs.suspended.translation_mode = "batch"
    /\ runs.suspended.pc = "call"
    /\ Len(runs.suspended.requests) = 3
    /\ runs.suspended.fallback = << <<"b">> >>

====
